---- MODULE Spec2Model ----
(***************************************************************************)
(* Model of image_wasm/src/lib.rs: the three LUT display converters        *)
(* generate_display_image_u8 / _u16 / _u32.                                *)
(*                                                                         *)
(* Buffers are TLA+ sequences; the element a Rust slice holds at index i   *)
(* (0-based) is element i + 1 of the sequence.  One action is one          *)
(* iteration of a `for idx in 0..pixel_count` loop (or the function's      *)
(* return); a bounds-checked slice access that is out of range ends the    *)
(* call in pc = "panicked", keeping every store made before it.            *)
(*                                                                         *)
(* pixel_count = width * height is modelled for geometries whose product   *)
(* fits in usize; the bounds below keep it far from the overflow range.    *)
(***************************************************************************)
EXTENDS Integers, Sequences, FiniteSets, TLC

\* ---------------------------------------------------------------- bounds
MaxPixels == 2      \* width * height is at most this
MaxLutLen == 2      \* the LUT holds at most this many entries
NumWorkers == 2     \* workers of the out-of-order specification

\* A buffer's element at 0-based index i.
At(buf, i) == buf[i + 1]

\* Sample values of each element type: one that indexes a short LUT, and one
\* beyond any LUT of the model that no narrower type holds (255 = u8::MAX,
\* 257 > u8::MAX, 65537 > u16::MAX).
SamplesOf(b) ==
    CASE b = 8 -> {0, 255}
      [] b = 16 -> {1, 257}
      [] b = 32 -> {1, 65537}

\* The LUT of n entries: entry i is 10 * (i + 1), so entries are distinct,
\* non-zero, and differ from the alpha byte.
RampLut(n) == [i \in 1..n |-> 10 * i]

\* The caller's output buffer before the call: n bytes, all distinct from one
\* another and from every byte the converter can store.
PreFilled(n) == [i \in 1..n |-> 100 + i]

VARIABLES
    bits,       \* which entry point is called: 8, 16 or 32
    data,       \* data: &[uN]
    width,      \* width: usize
    height,     \* height: usize
    lut,        \* lut: &[u8]
    channels,   \* channels: u8
    output,     \* output: &mut [u8]
    idx,        \* the loop variable of the sequential pass
    pc,         \* "run", "returned" or "panicked"
    fault,      \* the slice whose bounds check failed: "none", "data", "output"
    out0,       \* history: output as the caller passed it
    done,       \* history: the pixel indices whose iteration completed
    writers     \* history: per output byte, the workers that stored to it

inputs == <<bits, data, width, height, lut, channels, out0>>
vars == <<bits, data, width, height, lut, channels, output, idx, pc, fault,
          out0, done, writers>>

\* ------------------------------------------------------ the code's pieces

\* let pixel_count = width * height;
pixel_count == width * height

\* lut.get(value).copied().unwrap_or(0)
lut_get_or_255(l, value) ==
    IF value < Len(l) THEN At(l, value) ELSE 255

lut_get(l, value) ==
    IF value < Len(l) THEN At(l, value) ELSE 0

\* output[pos] = byte;  -- a bounds-checked store.  st is the state of the
\* running iteration: the buffer, the writers history, the fault so far and
\* the worker executing it.  After a fault nothing more executes.
Store(st, pos, byte) ==
    IF st.fault # "none" THEN st
    ELSE IF pos < Len(st.out)
         THEN [st EXCEPT !.out[pos + 1] = byte,
                         !.wr[pos + 1] = @ \cup {st.by}]
         ELSE [st EXCEPT !.fault = "output"]

\* ---- generate_display_image_u8: loop bodies

\* mutant: the sample is read with a default instead of a bounds check
mono_u8_default_sample(d, l, st, i) ==
    LET tgt_idx == i * 4
        value == IF i < Len(d) THEN At(d, i) ELSE 0
        display == lut_get(l, value)
    IN  Store(Store(Store(Store(st, tgt_idx, display),
                          tgt_idx + 1, display),
                    tgt_idx + 2, display),
              tgt_idx + 3, 255)

mono_u8(d, l, st, i) ==
    LET tgt_idx == i * 4
    IN  IF i >= Len(d) THEN [st EXCEPT !.fault = "data"]
        ELSE LET value == At(d, i)
                 display == lut_get(l, value)
             IN  Store(Store(Store(Store(st, tgt_idx, display),
                                   tgt_idx + 1, display),
                             tgt_idx + 2, display),
                       tgt_idx + 3, 255)

\* mutant: the channels are stored in B, G, R order
rgb_u8_bgr(d, l, st, i) ==
    LET base == i * 3
        tgt_idx == i * 4
    IN  IF base >= Len(d) \/ base + 1 >= Len(d) \/ base + 2 >= Len(d)
        THEN [st EXCEPT !.fault = "data"]
        ELSE LET r == lut_get(l, At(d, base))
                 g == lut_get(l, At(d, base + 1))
                 b == lut_get(l, At(d, base + 2))
             IN  Store(Store(Store(Store(st, tgt_idx, b),
                                   tgt_idx + 1, g),
                             tgt_idx + 2, r),
                       tgt_idx + 3, 255)

\* mutant: the output is packed at 3 bytes per pixel
rgb_u8_packed(d, l, st, i) ==
    LET base == i * 3
        tgt_idx == i * 3
    IN  IF base >= Len(d) \/ base + 1 >= Len(d) \/ base + 2 >= Len(d)
        THEN [st EXCEPT !.fault = "data"]
        ELSE LET r == lut_get(l, At(d, base))
                 g == lut_get(l, At(d, base + 1))
                 b == lut_get(l, At(d, base + 2))
             IN  Store(Store(Store(Store(st, tgt_idx, r),
                                   tgt_idx + 1, g),
                             tgt_idx + 2, b),
                       tgt_idx + 3, 255)

rgb_u8(d, l, st, i) ==
    LET base == i * 3
        tgt_idx == i * 4
    IN  IF base >= Len(d) \/ base + 1 >= Len(d) \/ base + 2 >= Len(d)
        THEN [st EXCEPT !.fault = "data"]
        ELSE LET r == lut_get(l, At(d, base))
                 g == lut_get(l, At(d, base + 1))
                 b == lut_get(l, At(d, base + 2))
             IN  Store(Store(Store(Store(st, tgt_idx, r),
                                   tgt_idx + 1, g),
                             tgt_idx + 2, b),
                       tgt_idx + 3, 255)

\* ---- generate_display_image_u16: loop bodies

\* mutant: only R receives the display value
mono_u16_red_only(d, l, st, i) ==
    LET tgt_idx == i * 4
    IN  IF i >= Len(d) THEN [st EXCEPT !.fault = "data"]
        ELSE LET value == At(d, i)
                 display == lut_get(l, value)
             IN  Store(Store(Store(Store(st, tgt_idx, display),
                                   tgt_idx + 1, 0),
                             tgt_idx + 2, 0),
                       tgt_idx + 3, 255)

mono_u16(d, l, st, i) ==
    LET tgt_idx == i * 4
    IN  IF i >= Len(d) THEN [st EXCEPT !.fault = "data"]
        ELSE LET value == At(d, i)
                 display == lut_get(l, value)
             IN  Store(Store(Store(Store(st, tgt_idx, display),
                                   tgt_idx + 1, display),
                             tgt_idx + 2, display),
                       tgt_idx + 3, 255)

\* mutant: the sample is narrowed to 8 bits before it indexes the LUT
rgb_u16_narrowed(d, l, st, i) ==
    LET base == i * 3
        tgt_idx == i * 4
    IN  IF base >= Len(d) \/ base + 1 >= Len(d) \/ base + 2 >= Len(d)
        THEN [st EXCEPT !.fault = "data"]
        ELSE LET r == lut_get(l, At(d, base) % 256)
                 g == lut_get(l, At(d, base + 1) % 256)
                 b == lut_get(l, At(d, base + 2) % 256)
             IN  Store(Store(Store(Store(st, tgt_idx, r),
                                   tgt_idx + 1, g),
                             tgt_idx + 2, b),
                       tgt_idx + 3, 255)

\* mutant: the pixel is stored only when all four bytes fit
rgb_u16_all_or_nothing(d, l, st, i) ==
    LET base == i * 3
        tgt_idx == i * 4
    IN  IF base >= Len(d) \/ base + 1 >= Len(d) \/ base + 2 >= Len(d)
        THEN [st EXCEPT !.fault = "data"]
        ELSE IF tgt_idx + 3 >= Len(st.out)
        THEN [st EXCEPT !.fault = "output"]
        ELSE LET r == lut_get(l, At(d, base))
                 g == lut_get(l, At(d, base + 1))
                 b == lut_get(l, At(d, base + 2))
             IN  Store(Store(Store(Store(st, tgt_idx, r),
                                   tgt_idx + 1, g),
                             tgt_idx + 2, b),
                       tgt_idx + 3, 255)

rgb_u16(d, l, st, i) ==
    LET base == i * 3
        tgt_idx == i * 4
    IN  IF base >= Len(d) \/ base + 1 >= Len(d) \/ base + 2 >= Len(d)
        THEN [st EXCEPT !.fault = "data"]
        ELSE LET r == lut_get(l, At(d, base))
                 g == lut_get(l, At(d, base + 1))
                 b == lut_get(l, At(d, base + 2))
             IN  Store(Store(Store(Store(st, tgt_idx, r),
                                   tgt_idx + 1, g),
                             tgt_idx + 2, b),
                       tgt_idx + 3, 255)

\* ---- generate_display_image_u32: loop bodies

\* mutant: the alpha byte is not stored
mono_u32_no_alpha(d, l, st, i) ==
    LET tgt_idx == i * 4
    IN  IF i >= Len(d) THEN [st EXCEPT !.fault = "data"]
        ELSE LET value == At(d, i)
                 display == lut_get(l, value)
             IN  Store(Store(Store(st, tgt_idx, display),
                             tgt_idx + 1, display),
                       tgt_idx + 2, display)

mono_u32(d, l, st, i) ==
    LET tgt_idx == i * 4
    IN  IF i >= Len(d) THEN [st EXCEPT !.fault = "data"]
        ELSE LET value == At(d, i)
                 display == lut_get(l, value)
             IN  Store(Store(Store(Store(st, tgt_idx, display),
                                   tgt_idx + 1, display),
                             tgt_idx + 2, display),
                       tgt_idx + 3, 255)

rgb_u32(d, l, st, i) ==
    LET base == i * 3
        tgt_idx == i * 4
    IN  IF base >= Len(d) \/ base + 1 >= Len(d) \/ base + 2 >= Len(d)
        THEN [st EXCEPT !.fault = "data"]
        ELSE LET r == lut_get(l, At(d, base))
                 g == lut_get(l, At(d, base + 1))
                 b == lut_get(l, At(d, base + 2))
             IN  Store(Store(Store(Store(st, tgt_idx, r),
                                   tgt_idx + 1, g),
                             tgt_idx + 2, b),
                       tgt_idx + 3, 255)

\* ---- the whole functions, as the sequential pass computes them

\* The state of a call at entry: the output as passed, nothing stored yet.
Entry(out) ==
    [out |-> out, wr |-> [p \in 1..Len(out) |-> {}], fault |-> "none", by |-> 0]

\* Each function runs `for idx in 0..pixel_count` with the loop body its
\* channels branch selects; the first fault ends the call.
generate_display_image_u8(d, w, h, l, ch, out) ==
    LET n == w * h
        mono[k \in 0..n] ==
            IF k = 0 THEN Entry(out)
            ELSE IF mono[k - 1].fault # "none" THEN mono[k - 1]
                 ELSE mono_u8(d, l, mono[k - 1], k - 1)
        rgb[k \in 0..n] ==
            IF k = 0 THEN Entry(out)
            ELSE IF rgb[k - 1].fault # "none" THEN rgb[k - 1]
                 ELSE rgb_u8(d, l, rgb[k - 1], k - 1)
    IN  IF ch = 1 THEN mono[n]
        ELSE IF ch = 3 THEN rgb[n]
        ELSE Entry(out)

generate_display_image_u16(d, w, h, l, ch, out) ==
    LET n == w * h
        mono[k \in 0..n] ==
            IF k = 0 THEN Entry(out)
            ELSE IF mono[k - 1].fault # "none" THEN mono[k - 1]
                 ELSE mono_u16(d, l, mono[k - 1], k - 1)
        rgb[k \in 0..n] ==
            IF k = 0 THEN Entry(out)
            ELSE IF rgb[k - 1].fault # "none" THEN rgb[k - 1]
                 ELSE rgb_u16(d, l, rgb[k - 1], k - 1)
    IN  IF ch = 1 THEN mono[n]
        ELSE IF ch = 3 THEN rgb[n]
        ELSE Entry(out)

generate_display_image_u32(d, w, h, l, ch, out) ==
    LET n == w * h
        mono[k \in 0..n] ==
            IF k = 0 THEN Entry(out)
            ELSE IF mono[k - 1].fault # "none" THEN mono[k - 1]
                 ELSE mono_u32(d, l, mono[k - 1], k - 1)
        rgb[k \in 0..n] ==
            IF k = 0 THEN Entry(out)
            ELSE IF rgb[k - 1].fault # "none" THEN rgb[k - 1]
                 ELSE rgb_u32(d, l, rgb[k - 1], k - 1)
    IN  IF ch = 1 THEN mono[n]
        ELSE IF ch = 3 THEN rgb[n]
        ELSE Entry(out)

\* ------------------------------------------------------------------ Init

Channels == {0, 1, 2, 3, 4, 7}

\* The lengths a caller passes for an input that needs `need` elements: one
\* element short, exact, or one element long.
DataLens(need) == {n \in {need - 1, need, need + 1} : n >= 0}

\* The lengths a caller passes for the output: short by up to one whole pixel
\* (so that a pixel can also be cut after 1, 2 or 3 bytes), exact, or one
\* byte long.
OutLens(need) == {m \in (need - 4)..(need + 1) : m >= 0}

\* The caller picks the entry point, the geometry, the channel count, the LUT
\* and the two buffers.  The code reads width and height only through their
\* product, so of two transposed geometries the one with height <= width is
\* taken; inputs of more than 3 * MaxPixels + 1 samples are left out.
Init ==
    \E b \in {8, 16, 32}, w \in 0..MaxPixels, h \in 0..MaxPixels,
       ch \in Channels, ll \in 0..MaxLutLen :
      /\ w * h <= MaxPixels
      /\ h <= w
      /\ \E n \in DataLens(w * h * ch), m \in OutLens(w * h * 4) :
           /\ n <= 3 * MaxPixels + 1
           /\ \E d \in [1..n -> SamplesOf(b)] :
                /\ bits = b
                /\ data = d
                /\ width = w
                /\ height = h
                /\ lut = RampLut(ll)
                /\ channels = ch
                /\ output = PreFilled(m)
                /\ out0 = PreFilled(m)
                /\ writers = [p \in 1..m |-> {}]
                /\ idx = 0
                /\ done = {}
                /\ pc = "run"
                /\ fault = "none"

\* --------------------------------------------------- the sequential pass

\* The state an iteration run by worker w starts from.
Running(w) ==
    [out |-> output, wr |-> writers, fault |-> "none", by |-> w]

\* One iteration of `for idx in 0..pixel_count` that leaves the state st: the
\* loop goes on to idx + 1, or the call ends at the fault.
Iterate(st) ==
    /\ output' = st.out
    /\ writers' = st.wr
    /\ fault' = st.fault
    /\ IF st.fault = "none"
       THEN /\ idx' = idx + 1
            /\ done' = done \cup {idx}
            /\ pc' = "run"
       ELSE /\ pc' = "panicked"
            /\ UNCHANGED <<idx, done>>
    /\ UNCHANGED inputs

Mono_u8 ==
    /\ pc = "run" /\ bits = 8 /\ channels = 1 /\ idx < pixel_count
    /\ Iterate(mono_u8(data, lut, Running(0), idx))

Rgb_u8 ==
    /\ pc = "run" /\ bits = 8 /\ channels = 3 /\ idx < pixel_count
    /\ Iterate(rgb_u8(data, lut, Running(0), idx))

\* mutant: `0..=pixel_count`
Mono_u16_inclusive ==
    /\ pc = "run" /\ bits = 16 /\ channels = 1 /\ idx <= pixel_count
    /\ Iterate(mono_u16(data, lut, Running(0), idx))

Mono_u16 ==
    /\ pc = "run" /\ bits = 16 /\ channels = 1 /\ idx < pixel_count
    /\ Iterate(mono_u16(data, lut, Running(0), idx))

\* mutant: `else` in place of `else if channels == 3`
Rgb_u16_else ==
    /\ pc = "run" /\ bits = 16 /\ channels # 1 /\ idx < pixel_count
    /\ Iterate(rgb_u16(data, lut, Running(0), idx))

Rgb_u16 ==
    /\ pc = "run" /\ bits = 16 /\ channels = 3 /\ idx < pixel_count
    /\ Iterate(rgb_u16(data, lut, Running(0), idx))

Mono_u32 ==
    /\ pc = "run" /\ bits = 32 /\ channels = 1 /\ idx < pixel_count
    /\ Iterate(mono_u32(data, lut, Running(0), idx))

Rgb_u32 ==
    /\ pc = "run" /\ bits = 32 /\ channels = 3 /\ idx < pixel_count
    /\ Iterate(rgb_u32(data, lut, Running(0), idx))

\* The loop is exhausted, or channels is neither 1 nor 3: the function returns.
Return ==
    /\ pc = "run"
    /\ channels \notin {1, 3} \/ idx >= pixel_count
    /\ pc' = "returned"
    /\ UNCHANGED <<output, writers, fault, idx, done>>
    /\ UNCHANGED inputs

Next ==
    \/ Mono_u8
    \/ Rgb_u8
    \/ Mono_u16
    \/ Rgb_u16
    \/ Mono_u32
    \/ Rgb_u32
    \/ Return

Spec == Init /\ [][Next]_vars

\* ------------------------------------------- the pixel steps in any order

\* The loop body the called entry point runs for channels = 1 or 3.
PixelBody(st, i) ==
    CASE bits = 8  /\ channels = 1 -> mono_u8(data, lut, st, i)
      [] bits = 8  /\ channels = 3 -> rgb_u8(data, lut, st, i)
      [] bits = 16 /\ channels = 1 -> mono_u16(data, lut, st, i)
      [] bits = 16 /\ channels = 3 -> rgb_u16(data, lut, st, i)
      [] bits = 32 /\ channels = 1 -> mono_u32(data, lut, st, i)
      [] bits = 32 /\ channels = 3 -> rgb_u32(data, lut, st, i)

\* Pixel i belongs to worker Owner(i).
Owner(i) == i % NumWorkers

\* The buffers satisfy the size preconditions.
PreOK ==
    /\ Len(data) >= pixel_count * channels
    /\ Len(out0) >= pixel_count * 4

\* Worker w runs the loop body for one of its pixels not yet processed.
ParStep(w) ==
    /\ pc = "run"
    /\ channels \in {1, 3}
    /\ \E i \in (0..(pixel_count - 1)) \ done :
         /\ Owner(i) = w
         /\ LET st == PixelBody(Running(w), i)
            IN  /\ output' = st.out
                /\ writers' = st.wr
                /\ fault' = st.fault
                /\ IF st.fault = "none"
                   THEN done' = done \cup {i} /\ pc' = "run"
                   ELSE done' = done /\ pc' = "panicked"
    /\ UNCHANGED idx
    /\ UNCHANGED inputs

\* Every pixel has been processed (or channels is neither 1 nor 3).
ParJoin ==
    /\ pc = "run"
    /\ channels \notin {1, 3} \/ done = 0..(pixel_count - 1)
    /\ pc' = "returned"
    /\ UNCHANGED <<output, writers, fault, idx, done>>
    /\ UNCHANGED inputs

InitPar == Init /\ PreOK

NextPar ==
    \/ \E w \in 0..(NumWorkers - 1) : ParStep(w)
    \/ ParJoin

SpecPar == InitPar /\ [][NextPar]_vars

\* ------------------------------------------------------------ vocabulary

\* LUT lookup with fallback, as the specification words it.
L(v) == IF v < Len(lut) THEN lut[v + 1] ELSE 0

\* The byte at 0-based position p of the output, now and before the call.
Out(p) == output[p + 1]
Out0(p) == out0[p + 1]

Pixels == 0..(pixel_count - 1)

\* The whole call on the caller's arguments, per entry point.
Run8 == generate_display_image_u8(data, width, height, lut, channels, out0)
Run16 == generate_display_image_u16(data, width, height, lut, channels, out0)
Run32 == generate_display_image_u32(data, width, height, lut, channels, out0)
RunOf(b) == CASE b = 8 -> Run8 [] b = 16 -> Run16 [] b = 32 -> Run32

\* A call that returns has completed every pixel of a supported image.
Completed == (pc = "returned" /\ channels \in {1, 3}) => done = Pixels

\* The call on the caller's geometry, LUT and output with the samples d.
RunWith(d) ==
    CASE bits = 8 -> generate_display_image_u8(d, width, height, lut, channels, out0)
      [] bits = 16 -> generate_display_image_u16(d, width, height, lut, channels, out0)
      [] bits = 32 -> generate_display_image_u32(d, width, height, lut, channels, out0)

\* The byte the specification prescribes for channel c (0..3) of pixel i.
Expected(i, c) ==
    IF c = 3 THEN 255
    ELSE IF channels = 1 THEN L(data[i + 1])
    ELSE L(data[3 * i + c + 1])

\* ---------------------------------------------------------------- claims

\* C1 -- Mono replication: with channels = 1, every pixel whose iteration has
\* completed has R = G = B = L(data[idx]), and a call that returns has
\* completed every pixel in [0, width*height).
MonoReplication ==
    channels = 1 =>
      /\ Completed
      /\ \A i \in done :
           /\ Out(4 * i) = L(data[i + 1])
           /\ Out(4 * i + 1) = L(data[i + 1])
           /\ Out(4 * i + 2) = L(data[i + 1])

\* A 16-bit mono call on two pixels has returned; one sample indexes the LUT
\* and one (257) is beyond it.
MonoReplicationWitness ==
    /\ pc = "returned" /\ bits = 16 /\ channels = 1 /\ pixel_count = 2
    /\ \E i, j \in Pixels : data[i + 1] < Len(lut) /\ data[j + 1] >= Len(lut)

\* C2 -- RGB channel independence: with channels = 3, every completed pixel
\* has output[4*idx+c] = L(data[3*idx+c]) for c in 0..2; and the call on
\* inputs that differ only in the G samples leaves an output that differs
\* from this one at most in the G bytes.
RgbChannelIndependence ==
    channels = 3 =>
      /\ Completed
      /\ \A i \in done : \A c \in 0..2 :
           Out(4 * i + c) = L(data[3 * i + c + 1])
      /\ pc = "returned" =>
           \A gs \in [Pixels -> SamplesOf(bits)] :
             LET d2 == [k \in 1..Len(data) |->
                          IF (k - 1) % 3 = 1 /\ (k - 1) \div 3 < pixel_count
                          THEN gs[(k - 1) \div 3] ELSE data[k]]
                 r2 == RunWith(d2)
             IN  /\ r2.fault = "none"
                 /\ \A p \in 0..(Len(output) - 1) :
                      p % 4 # 1 => r2.out[p + 1] = Out(p)

\* An RGB call on two pixels has returned, with samples on both sides of the
\* LUT's end within one pixel.
RgbChannelIndependenceWitness ==
    /\ pc = "returned" /\ channels = 3 /\ pixel_count = 2
    /\ \E i \in Pixels : data[3 * i + 1] < Len(lut) /\ data[3 * i + 2] >= Len(lut)

\* C3 -- Fallback law: a sample v >= len(lut) never makes the call fail (with
\* buffers of the required sizes the call never panics), and every colour byte
\* derived from such a sample is 0.
FallbackLaw ==
    /\ PreOK => pc # "panicked"
    /\ channels = 1 =>
         \A i \in done : data[i + 1] >= Len(lut) =>
            Out(4 * i) = 0 /\ Out(4 * i + 1) = 0 /\ Out(4 * i + 2) = 0
    /\ channels = 3 =>
         \A i \in done : \A c \in 0..2 :
            data[3 * i + c + 1] >= Len(lut) => Out(4 * i + c) = 0

\* An 8-bit RGB call with an empty LUT has returned: every sample fell back.
FallbackLawWitness ==
    /\ pc = "returned" /\ bits = 8 /\ channels = 3 /\ pixel_count = 2
    /\ lut = <<>>

\* C4 -- Alpha invariant: with channels in {1, 3}, every completed pixel has
\* its alpha byte inside the buffer and equal to 255, and a call that returns
\* has completed every pixel.
AlphaInvariant ==
    channels \in {1, 3} =>
      /\ Completed
      /\ \A i \in done : 4 * i + 3 < Len(output) /\ Out(4 * i + 3) = 255

\* A 32-bit mono call on two pixels has returned over an output whose alpha
\* bytes were not 255 before.
AlphaInvariantWitness ==
    /\ pc = "returned" /\ bits = 32 /\ channels = 1 /\ pixel_count = 2
    /\ \A i \in Pixels : Out0(4 * i + 3) # 255

GeometryFrame ==
    channels \in {1, 3} =>
      /\ Len(output) = Len(out0)
      /\ \A p \in 0..(Len(output) - 1) :
           p >= 4 * pixel_count => Out(p) = Out0(p) /\ writers[p + 1] = {}
      /\ pc = "returned" =>
           /\ Len(output) >= 4 * pixel_count
           /\ \A p \in 0..(4 * pixel_count - 1) : writers[p + 1] # {}

\* An RGB call has returned over an output longer than width*height*4.
GeometryFrameWitness ==
    /\ pc = "returned" /\ channels = 3 /\ pixel_count = 2
    /\ Len(output) > 4 * pixel_count

AtomicFailure ==
    pc = "panicked" => output = out0

\* C8, amended -- a call that fails at pixel idx has fully written every pixel
\* before idx; when the failing access is the input read, no byte of pixel idx
\* is written; when it is an output store, exactly the bytes of pixel idx that
\* lie inside the buffer are written; nothing after them is written.
PartialResultOnFailure ==
    pc = "panicked" =>
      /\ channels \in {1, 3}
      /\ idx < pixel_count
      /\ done = 0..(idx - 1)
      /\ \A i \in done : \A c \in 0..3 :
           Out(4 * i + c) = Expected(i, c) /\ writers[4 * i + c + 1] # {}
      /\ fault \in {"data", "output"}
      /\ fault = "data" =>
           \A p \in 0..(Len(output) - 1) :
             p >= 4 * idx => Out(p) = Out0(p) /\ writers[p + 1] = {}
      /\ fault = "output" =>
           /\ Len(output) < 4 * idx + 4
           /\ \A p \in 0..(Len(output) - 1) :
                p >= 4 * idx =>
                  Out(p) = Expected(idx, p - 4 * idx) /\ writers[p + 1] # {}

\* An RGB call has failed storing the third byte of its second pixel: the
\* first pixel and two bytes of the second are written.
PartialResultWitness ==
    /\ pc = "panicked" /\ channels = 3 /\ fault = "output"
    /\ idx = 1 /\ Len(output) = 6
    /\ output # out0

\* C9 -- Width-variant equivalence: when the call has ended, its output and
\* its outcome are those of every entry point whose element type holds the
\* samples, called with the same arguments.
WidthVariantEquivalence ==
    pc \in {"returned", "panicked"} =>
      /\ (\A k \in 1..Len(data) : data[k] <= 255) =>
            Run8.out = output /\ Run8.fault = fault
      /\ (\A k \in 1..Len(data) : data[k] <= 65535) =>
            Run16.out = output /\ Run16.fault = fault
      /\ Run32.out = output /\ Run32.fault = fault

\* A 16-bit RGB call on two pixels, with a sample above 255, has returned.
WidthVariantWitness ==
    /\ pc = "returned" /\ bits = 16 /\ channels = 3 /\ pixel_count = 2
    /\ lut # <<>>
    /\ \E k \in 1..Len(data) : data[k] > 255

\* C10 -- Order independence: in whatever order the workers run the pixel
\* steps, an output byte is stored to only by the owner of its pixel, a pixel
\* not yet processed is as the caller passed it, no step fails, and the call
\* ends in the output of the sequential pass.
OrderIndependence ==
    /\ \A p \in 0..(Len(output) - 1) : writers[p + 1] \subseteq {Owner(p \div 4)}
    /\ \A i \in Pixels \ done : \A c \in 0..3 :
         channels \in {1, 3} => Out(4 * i + c) = Out0(4 * i + c)
    /\ pc # "panicked"
    /\ pc = "returned" => output = RunOf(bits).out

\* The second pixel of an RGB image has been processed before the first.
OrderIndependenceWitness ==
    /\ pc = "run" /\ channels = 3 /\ pixel_count = 2 /\ done = {1}
    /\ output # out0

====
